---- MODULE Spec2Model ----
(***************************************************************************)
(* The real-time object-detection pipeline of project_context/model.py:    *)
(* the ingest/display loop (main thread), the inference thread             *)
(* detection_loop, the shared slots latest_frame / detections / fps /      *)
(* running guarded (or not) by frame_lock, and the pure stages letterbox,  *)
(* quantize_input and post-processing.                                     *)
(*                                                                         *)
(* Numbers.  Python floats are modelled by exact rationals:                *)
(*   - a normalized box coordinate is an integer count of 1/BoxDen,       *)
(*   - a confidence score is an integer count of 1/100,                   *)
(*   - the letterbox scale is a pair [num, den].                           *)
(* int() is truncation toward zero (Trunc).                                *)
(***************************************************************************)
EXTENDS Integers, Sequences, FiniteSets, TLC

VARIABLES
    USE_PICAMERA2,  \* model.py:20-25  which camera backend was imported
    labels,         \* model.py:109    label table read from the model file
    in_w, in_h,     \* model.py:115    detector input size
    in_dtype,       \* model.py:116    detector input dtype
    in_scale,       \* model.py:117    input quantization scale, a rational [num, den]
    in_zero,        \* model.py:117    input quantization zero point
    px,             \* one sample (0..255) of the letterboxed image lb_img
    printed,        \* model.py:46,205 the lines print() has written so far
    frame_lock,     \* model.py:137    "free" or the thread holding the lock
    latest_frame,   \* model.py:138    shared latest-frame slot (None or a frame)
    detections,     \* model.py:139    shared detection-result slot
    fps,            \* model.py:140    shared FPS estimate, a rational [num, den]
    running,        \* model.py:141    shared stop flag
    det_pc,         \* position of the inference thread in detection_loop
    d_frame,        \* detection_loop local `frame` (model.py:148)
    d_lb,           \* detection_loop locals lb_img, scale, left, top (model.py:153)
    d_x,            \* detection_loop local `x` at that sample, a rational (model.py:154)
    d_raw,          \* detection_loop locals boxes, classes, scores, count (model.py:160-163)
    d_dets,         \* detection_loop local `dets` (model.py:166)
    main_pc,        \* position of the main thread in the ingest/display loop
    m_frame,        \* main-thread variable `frame` (model.py:210/214)
    captured,       \* number of frames the camera has delivered so far
    shown,          \* the detection list the display last drew (model.py:220-224)
    joined,         \* outcome of thread.join(timeout=1.0) (model.py:230)
    h_readSlot,     \* history: the slot as it was when the current cycle read it
    h_pubAfterStop, \* history: detection sets published since running = False
    h_pubFrame      \* history: the frame the published detection set was derived from

vars == << USE_PICAMERA2, labels, in_w, in_h, in_dtype, in_scale, in_zero, px,
           printed, frame_lock, latest_frame, detections, fps, running, det_pc, d_frame,
           d_lb, d_x, d_raw, d_dets, main_pc, m_frame, captured, shown, joined,
           h_readSlot, h_pubAfterStop, h_pubFrame >>

----------------------------------------------------------------------------
(* Bounds of the model                                                     *)

\* frames the camera delivers in one run
MaxFrames == 2
\* length of the detector's output arrays (count ranges over 0..MaxDet)
MaxDet == 2

\* the history counter h_pubAfterStop saturates here
PubCap == 2

\* the largest source width and height letterbox is examined with
MaxSide == 12

\* a box coordinate k stands for the float k / BoxDen
BoxDen == 8

----------------------------------------------------------------------------
(* Values                                                                  *)

\* Python's None in a frame variable
None == [by |-> "none", seq |-> 0, w |-> 0, h |-> 0]

\* The array the camera returns for its n-th capture: a fresh buffer.
CameraFrame(n, w, h) == [by |-> "cam", seq |-> n, w |-> w, h |-> h]

\* ndarray.copy(): same contents, a fresh buffer
Copy(f) == [f EXCEPT !.by = "copy"]

\* two frame variables reference the same buffer object
SameBuffer(a, b) == a # None /\ b # None /\ a.by = b.by /\ a.seq = b.seq

\* int(a / b) for b > 0: truncation toward zero
Trunc(a, b) == IF a >= 0 THEN a \div b ELSE -((-a) \div b)

Min(a, b) == IF a <= b THEN a ELSE b
Max(a, b) == IF a >= b THEN a ELSE b

\* the rational n / d
Ratio(n, d) == [num |-> n, den |-> d]

\* decimal digits of a natural number, as str() prints them
Digit(d) == <<"0", "1", "2", "3", "4", "5", "6", "7", "8", "9">>[d + 1]

RECURSIVE NatStr(_)
NatStr(n) == IF n < 10 THEN Digit(n) ELSE NatStr(n \div 10) \o Digit(n % 10)

\* str(c) for an int c
IntStr(c) == IF c < 0 THEN "-" \o NatStr(-c) ELSE NatStr(c)

----------------------------------------------------------------------------
(* letterbox (model.py:68-84)                                              *)

\* min(new_w / w, new_h / h) as an exact fraction
LetterboxScale(w, h, new_w, new_h) ==
    IF new_w * h <= new_h * w THEN [num |-> new_w, den |-> w]
                              ELSE [num |-> new_h, den |-> h]

\* letterbox raised: no canvas, no scale, no offsets
LetterboxRaised ==
    [ok |-> FALSE, scale |-> [num |-> 0, den |-> 1], nw |-> 0, nh |-> 0,
     left |-> 0, top |-> 0, cw |-> 0, ch |-> 0]

\* mutant of letterbox: the image is stretched over the whole canvas
letterboxStretched(w, h, new_w, new_h) ==
    IF w = 0 \/ h = 0 THEN LetterboxRaised
    ELSE [ok |-> TRUE, scale |-> LetterboxScale(w, h, new_w, new_h),
          nw |-> new_w, nh |-> new_h, left |-> 0, top |-> 0,
          cw |-> new_w, ch |-> new_h]

\* The result of letterbox(img, new_w, new_h) for an image of w x h pixels:
\* the canvas size, the pasted region, scale, left, top.  Division by a zero
\* width or height raises ZeroDivisionError; a resize to zero columns or rows
\* is refused by cv2.resize and then by the PIL fallback (ok = FALSE).
letterbox(w, h, new_w, new_h) ==
    IF w = 0 \/ h = 0 THEN LetterboxRaised
    ELSE LET scale == LetterboxScale(w, h, new_w, new_h)
             nw == Trunc(w * scale.num, scale.den)
             nh == Trunc(h * scale.num, scale.den)
         IN  IF nw < 1 \/ nh < 1 THEN LetterboxRaised
             ELSE [ok |-> TRUE, scale |-> scale, nw |-> nw, nh |-> nh,
                   left |-> (new_w - nw) \div 2, top |-> (new_h - nh) \div 2,
                   cw |-> new_w, ch |-> new_h]

NoLetterbox == LetterboxRaised

----------------------------------------------------------------------------
(* quantize_input (model.py:86-103), for one sample x of the image         *)

\* the largest uint8 sample
MaxSample == 255

\* ndarray.round() of n / d (d > 0): to the nearest integer, halves to even
RoundHalfEven(n, d) ==
    LET f == n \div d
        r == n - f * d
    IN  IF 2 * r < d THEN f
        ELSE IF 2 * r > d THEN f + 1
        ELSE IF f % 2 = 0 THEN f ELSE f + 1

\* mutant of Clip: the value is passed on unclipped
ClipNone(v, lo, hi) == v

\* ndarray.clip(lo, hi) of an integer-valued sample
Clip(v, lo, hi) == Max(lo, Min(hi, v))

\* .astype(np.uint8) of an integer-valued float: exact inside 0..255; outside
\* it the low eight bits are kept
CastUint8(v) == v % 256

\* .astype(np.int8) of an integer-valued float: exact inside -128..127; outside
\* it the low eight bits are kept, as a signed value
CastInt8(v) == ((v + 128) % 256) - 128

\* model.py:92/98  (x / 255.0) / in_scale + in_zero, rounded, for in_scale > 0
Affine(x, scale, zero) ==
    RoundHalfEven(x * scale.den + zero * MaxSample * scale.num, MaxSample * scale.num)

\* model.py:101-102  ((x - 127.5) / 127.5).clip(-1, 1) / 0.0078125, rounded;
\* (x - 127.5) / 127.5 = (2x - 255) / 255 and 1 / 0.0078125 = 128
Fallback(x) ==
    LET n == 2 * x - MaxSample
        q == IF n < -MaxSample THEN -MaxSample ELSE IF n > MaxSample THEN MaxSample ELSE n
    IN  RoundHalfEven(q * 128, MaxSample)

\* quantize_input(x, in_dtype, in_scale, in_zero) at one sample, as a rational
quantize_input(x, dtype, scale, zero) ==
    IF dtype = "float32" THEN Ratio(x, MaxSample)
    ELSE IF dtype = "uint8"
    THEN IF scale.num > 0
         THEN Ratio(CastUint8(Clip(Affine(x, scale, zero), 0, 255)), 1)
         ELSE Ratio(CastUint8(x), 1)
    ELSE IF dtype = "int8"
    THEN IF scale.num > 0
         THEN Ratio(CastInt8(Clip(Affine(x, scale, zero), -128, 127)), 1)
         ELSE Ratio(CastInt8(Clip(Fallback(x), -128, 127)), 1)
    ELSE Ratio(x, 1)

----------------------------------------------------------------------------
(* Post-processing (model.py:165-191)                                      *)

\* score_thresh = 0.5, in units of 1/100
score_thresh == 50

\* mutant of BelowThreshold: a score equal to the threshold is dropped too
BelowOrAtThreshold(s) == s <= score_thresh

\* model.py:169  `if s < score_thresh: continue`
BelowThreshold(s) == s < score_thresh

\* f"id:{c}"
Placeholder(c) == "id:" \o IntStr(c)

\* mutant of LabelOf: the 1-based lookup is tried first
LabelOfOneBasedFirst(c, tbl) ==
    IF 1 <= c /\ c <= Len(tbl) THEN tbl[(c - 1) + 1]
    ELSE IF 0 <= c /\ c < Len(tbl) THEN tbl[c + 1]
    ELSE "id:" \o IntStr(c)

\* model.py:172-177  label of class c.  labels is 1-indexed here: Python's
\* labels[k] is labels[k + 1].
LabelOf(c, tbl) ==
    IF 0 <= c /\ c < Len(tbl) THEN tbl[c + 1]
    ELSE IF 1 <= c /\ c <= Len(tbl) THEN tbl[(c - 1) + 1]
    ELSE Placeholder(c)

\* mutant of DeLetterbox: the padding offset is not subtracted
DeLetterboxNoOffset(k, in_dim, off, scale) ==
    Trunc(k * in_dim * scale.den, BoxDen * scale.num)

\* model.py:182-185  int((k/BoxDen * in_dim - off) / scale)
DeLetterbox(k, in_dim, off, scale) ==
    Trunc((k * in_dim - off * BoxDen) * scale.den, BoxDen * scale.num)

\* model.py:187-188  max(0, min(dim-1, v))
Clamp(v, dim) == Max(0, Min(dim - 1, v))

\* model.py:179-188  frame-space box of a raw box (ymin, xmin, ymax, xmax)
FrameBox(box, lb, w, h) ==
    LET ymin == box[1]  xmin == box[2]  ymax == box[3]  xmax == box[4]
    IN  [x1 |-> Clamp(DeLetterbox(xmin, in_w, lb.left, lb.scale), w),
         y1 |-> Clamp(DeLetterbox(ymin, in_h, lb.top, lb.scale), h),
         x2 |-> Clamp(DeLetterbox(xmax, in_w, lb.left, lb.scale), w),
         y2 |-> Clamp(DeLetterbox(ymax, in_h, lb.top, lb.scale), h)]

\* mutant of Degenerate: only boxes of negative extent are dropped
DegenerateStrict(b) == b.x2 < b.x1 \/ b.y2 < b.y1

\* model.py:189  `if x2 <= x1 or y2 <= y1: continue`
Degenerate(b) == b.x2 <= b.x1 \/ b.y2 <= b.y1

\* model.py:160-163  the detector's four outputs, raw = <<boxes, classes,
\* scores, count>>; Python's element i of an array is element i + 1 here
BoxAt(raw, i) == raw[1][i + 1]
ClassAt(raw, i) == raw[2][i + 1]
ScoreAt(raw, i) == raw[3][i + 1]
CountOf(raw) == raw[4]

\* model.py:191  the tuple appended to dets.  src is not part of the tuple: it
\* records the raw index i the tuple was built from.
Detection(i, raw, lb, w, h) ==
    [box |-> FrameBox(BoxAt(raw, i), lb, w, h), name |-> LabelOf(ClassAt(raw, i), labels),
     s |-> ScoreAt(raw, i), src |-> i]

\* model.py:167-191  the loop `for i in range(count)`, from index i on, with
\* dets as accumulated so far
\* mutant of PostLoop: a kept detection is inserted at the head of dets
RECURSIVE PostLoopNewestFirst(_, _, _, _, _, _)
PostLoopNewestFirst(i, dets, raw, lb, w, h) ==
    IF i >= CountOf(raw) THEN dets
    ELSE LET d == Detection(i, raw, lb, w, h)
         IN  IF BelowThreshold(ScoreAt(raw, i))
             THEN PostLoopNewestFirst(i + 1, dets, raw, lb, w, h)
             ELSE IF Degenerate(d.box)
             THEN PostLoopNewestFirst(i + 1, dets, raw, lb, w, h)
             ELSE PostLoopNewestFirst(i + 1, <<d>> \o dets, raw, lb, w, h)

RECURSIVE PostLoop(_, _, _, _, _, _)
PostLoop(i, dets, raw, lb, w, h) ==
    IF i >= CountOf(raw) THEN dets
    ELSE LET d == Detection(i, raw, lb, w, h)
         IN  IF BelowThreshold(ScoreAt(raw, i)) THEN PostLoop(i + 1, dets, raw, lb, w, h)
             ELSE IF Degenerate(d.box) THEN PostLoop(i + 1, dets, raw, lb, w, h)
             ELSE PostLoop(i + 1, Append(dets, d), raw, lb, w, h)

\* model.py:165-191
PostProcess(raw, lb, frame) == PostLoop(0, <<>>, raw, lb, frame.w, frame.h)

----------------------------------------------------------------------------
(* Inputs                                                                  *)

\* a raw box (ymin, xmin, ymax, xmax), each coordinate in units of 1/BoxDen
Box(ymin, xmin, ymax, xmax) == << ymin, xmin, ymax, xmax >>

\* one element of the detector's parallel arrays: boxes[i], classes[i], scores[i]
RawDet(box, cls, score) == << box, cls, score >>

\* the centred box (0.25, 0.25, 0.75, 0.75)
CentreBox == Box(2, 2, 6, 6)

\* raw boxes: centred; xmax < xmin; xmax = xmin; reaching outside [0,1];
\* a strip at the top edge of the canvas (inside the padding of a landscape frame)
Boxes == { CentreBox, Box(2, 6, 6, 2), Box(2, 4, 6, 4), Box(-4, -4, 12, 12),
           Box(0, 2, 1, 6) }

\* scores just below, at and just above the threshold
Scores == { score_thresh - 1, score_thresh, score_thresh + 1 }

\* class indices: negative, 0-based hit, 1-based hit of a two-entry table, far out
Classes == { -1, 0, 1, 2, 5, 12 }

\* the raw detections the detector may emit when post-processing is examined
RawDets == { RawDet(b, 0, s) : b \in Boxes, s \in Scores }
             \cup { RawDet(CentreBox, c, score_thresh) : c \in Classes }

\* the four outputs of the detector for a sequence of raw detections and a
\* count: << boxes, classes, scores, count >>
AsOutput(a, n) ==
    << [i \in DOMAIN a |-> a[i][1]], [i \in DOMAIN a |-> a[i][2]],
       [i \in DOMAIN a |-> a[i][3]], n >>

\* sequences of MaxDet raw detections
Arrays(elems) == [1..MaxDet -> elems]

NoOutput == << <<>>, <<>>, <<>>, 0 >>

\* label tables load_labels_from_tflite may return (model.py:51-66)
LabelTables == { <<>>, <<"cat", "dog">> }

\* camera frame size configured at model.py:124 / model.py:129
CameraSize == [w |-> 640, h |-> 480]

\* detector input sizes (model.py:115)
InputSizes == { [w |-> 320, h |-> 320], [w |-> 448, h |-> 448] }

\* frame sizes handed to post-processing when it is examined on its own
FrameSizes == { CameraSize, [w |-> 480, h |-> 640], [w |-> 5, h |-> 3], [w |-> 1, h |-> 1] }

\* what the detector emits in the pipeline runs: one detection above the
\* threshold followed by one below it, with count 0, 1 or more
SceneArrays ==
    { [i \in 1..MaxDet |-> IF i = 1 THEN RawDet(CentreBox, 0, score_thresh + 1)
                                    ELSE RawDet(CentreBox, 1, score_thresh - 1)] }

\* t_now - t_prev of two time.time() readings (model.py:194-195)
ClockDeltas == { -1, 0, 1 }

----------------------------------------------------------------------------
(* Initial state: the script is about to run its setup (model.py:108)      *)

InitShared ==
    /\ frame_lock = "free"
    /\ latest_frame = None
    /\ detections = <<>>
    /\ fps = Ratio(0, 1)
    /\ running = TRUE

InitLocals ==
    /\ d_frame = None
    /\ d_lb = NoLetterbox
    /\ d_raw = NoOutput
    /\ d_dets = <<>>
    /\ m_frame = None
    /\ captured = 0
    /\ shown = <<>>
    /\ joined = "pending"
    /\ h_readSlot = None
    /\ h_pubAfterStop = 0
    /\ h_pubFrame = None

\* model.py:46  print(f"[INFO] downloading {path}")
DownloadingLine == "[INFO] downloading efficientdet_lite2.tflite"

\* model.py:205
RunningLine == "Running. Close window or Ctrl+C to quit."

\* the lines printed by a setup that found the model file in place
PrintedAfterSetup == { RunningLine }

\* the input tensor of the detector is uint8 with quantization
\* (0.0078125, 127); the observed sample of the image is white
InitQuant ==
    /\ in_dtype = "uint8"
    /\ in_scale = Ratio(1, 128)
    /\ in_zero = 127
    /\ px = MaxSample
    /\ d_x = Ratio(0, 1)

Init ==
    /\ USE_PICAMERA2 \in BOOLEAN
    /\ labels = <<"cat", "dog">>
    /\ in_w = 320 /\ in_h = 320
    /\ InitQuant
    /\ printed = {}
    /\ InitShared
    /\ InitLocals
    /\ det_pc = "D_unstarted"
    /\ main_pc = "S_download"

config == << USE_PICAMERA2, labels, in_w, in_h, in_dtype, in_scale, in_zero, px >>
history == << h_readSlot, h_pubAfterStop, h_pubFrame >>
mainLocals == << main_pc, m_frame, captured, shown, joined >>
detLocals == << det_pc, d_frame, d_lb, d_x, d_raw, d_dets >>

----------------------------------------------------------------------------
(* The inference thread: detection_loop (model.py:143-196)                 *)

\* thread is a daemon (model.py:204): it runs only while the main thread has
\* not finished
DetAlive == main_pc \notin {"M_done", "M_failed"}

\* mutant of LoopTest: the loop never looks at the stop flag
LoopTestAlways == TRUE

\* model.py:146  `while running:`
LoopTest == running

D_while ==
    /\ DetAlive /\ det_pc = "D_while"
    /\ det_pc' = IF LoopTest THEN "D_lock" ELSE "D_exit"
    /\ UNCHANGED << config, printed, frame_lock, latest_frame, detections, fps, running,
                    d_frame, d_lb, d_raw, d_dets, d_x, mainLocals, history >>

\* model.py:147  `with frame_lock:` entered
D_lock ==
    /\ DetAlive /\ det_pc = "D_lock"
    /\ frame_lock = "free"
    /\ frame_lock' = "det"
    /\ det_pc' = "D_copy"
    /\ UNCHANGED << config, printed, latest_frame, detections, fps, running,
                    d_frame, d_lb, d_raw, d_dets, d_x, mainLocals, history >>

\* mutant of ReadSlot: the frame taken first is kept and worked on again
ReadSlotBuffered ==
    IF d_frame # None THEN d_frame
    ELSE IF latest_frame = None THEN None ELSE Copy(latest_frame)

\* mutant of ReadSlot: a frame already published from is not taken again
ReadSlotOnlyNew ==
    IF latest_frame = None \/ (h_pubFrame # None /\ h_pubFrame.seq = latest_frame.seq)
    THEN None ELSE Copy(latest_frame)

\* model.py:148  `None if latest_frame is None else latest_frame.copy()`
ReadSlot == IF latest_frame = None THEN None ELSE Copy(latest_frame)

\* mutant of AfterCopy: the cycle runs inside the with block
AfterCopyHeld == "det"

\* the lock state when the `with frame_lock:` block of model.py:147-148 is left
AfterCopy == "free"

\* model.py:148 and the end of the with block
D_copy ==
    /\ DetAlive /\ det_pc = "D_copy"
    /\ d_frame' = ReadSlot
    /\ h_readSlot' = latest_frame
    /\ frame_lock' = AfterCopy
    /\ det_pc' = "D_check"
    /\ UNCHANGED << config, printed, latest_frame, detections, fps, running,
                    d_lb, d_raw, d_dets, d_x, mainLocals, h_pubAfterStop, h_pubFrame >>

\* model.py:149-150  `if frame is None: time.sleep(0.005); continue`
D_check ==
    /\ DetAlive /\ det_pc = "D_check"
    /\ det_pc' = IF d_frame = None THEN "D_while" ELSE "D_letterbox"
    /\ UNCHANGED << config, printed, frame_lock, latest_frame, detections, fps, running,
                    d_frame, d_lb, d_raw, d_dets, d_x, mainLocals, history >>

\* model.py:153  letterbox(frame, in_w, in_h); an exception leaves the thread
D_letterbox ==
    /\ DetAlive /\ det_pc = "D_letterbox"
    /\ LET lb == letterbox(d_frame.w, d_frame.h, in_w, in_h)
       IN  /\ d_lb' = lb
           /\ det_pc' = IF lb.ok THEN "D_quantize" ELSE "D_crashed"
    /\ UNCHANGED << config, printed, frame_lock, latest_frame, detections, fps, running,
                    d_frame, d_raw, d_dets, d_x, mainLocals, history >>

\* model.py:154-155  quantize_input and expand_dims build the tensor x;
\* d_x is its value where the letterboxed image has the sample px
D_quantize ==
    /\ DetAlive /\ det_pc = "D_quantize"
    /\ d_x' = quantize_input(px, in_dtype, in_scale, in_zero)
    /\ det_pc' = "D_invoke"
    /\ UNCHANGED << config, printed, frame_lock, latest_frame, detections, fps, running,
                    d_frame, d_lb, d_raw, d_dets, mainLocals, history >>

\* model.py:157-163  set_tensor, invoke and the four get_tensor calls return
Invoke(arrays) ==
    /\ DetAlive /\ det_pc = "D_invoke"
    /\ \E a \in arrays, n \in 0..MaxDet : d_raw' = AsOutput(a, n)
    /\ det_pc' = "D_post"
    /\ UNCHANGED << config, printed, frame_lock, latest_frame, detections, fps, running,
                    d_frame, d_lb, d_dets, d_x, mainLocals, history >>

D_invoke == Invoke(SceneArrays)

\* where the thread is after set_tensor / invoke raised: detection_loop has
\* no try/except, so the exception ends the thread
AfterRaise == "D_crashed"

\* model.py:157-158  set_tensor or invoke raises
D_invoke_raise ==
    /\ DetAlive /\ det_pc = "D_invoke"
    /\ det_pc' = AfterRaise
    /\ UNCHANGED << config, printed, frame_lock, latest_frame, detections, fps, running,
                    d_frame, d_lb, d_raw, d_dets, d_x, mainLocals, history >>

\* mutant of D_post: the shared list is emptied and refilled in place
D_postClearsShared ==
    /\ DetAlive /\ det_pc = "D_post"
    /\ d_dets' = PostProcess(d_raw, d_lb, d_frame)
    /\ detections' = <<>>
    /\ det_pc' = "D_publish"
    /\ UNCHANGED << config, printed, frame_lock, latest_frame, fps, running,
                    d_frame, d_lb, d_x, d_raw, mainLocals, history >>

\* model.py:165-191  the post-processing loop fills the private list dets
D_post ==
    /\ DetAlive /\ det_pc = "D_post"
    /\ d_dets' = PostProcess(d_raw, d_lb, d_frame)
    /\ det_pc' = "D_publish"
    /\ UNCHANGED << config, printed, frame_lock, latest_frame, detections, fps, running,
                    d_frame, d_lb, d_x, d_raw, mainLocals, history >>

\* model.py:192  `detections = dets`
D_publish ==
    /\ DetAlive /\ det_pc = "D_publish"
    /\ detections' = d_dets
    /\ h_pubFrame' = d_frame
    /\ h_pubAfterStop' = IF running THEN 0 ELSE Min(h_pubAfterStop + 1, PubCap)
    /\ det_pc' = "D_fps"
    /\ UNCHANGED << config, printed, frame_lock, latest_frame, fps, running,
                    d_frame, d_lb, d_raw, d_dets, d_x, mainLocals, h_readSlot >>

\* model.py:195  `1.0 / (t_now - t_prev) if t_now > t_prev else 0.0`
FpsOf(dt) == IF dt > 0 THEN Ratio(1, dt) ELSE Ratio(0, 1)

\* model.py:194-196
D_fps ==
    /\ DetAlive /\ det_pc = "D_fps"
    /\ \E dt \in ClockDeltas : fps' = FpsOf(dt)
    /\ det_pc' = "D_while"
    /\ UNCHANGED << config, printed, frame_lock, latest_frame, detections, running,
                    d_frame, d_lb, d_raw, d_dets, d_x, mainLocals, history >>

\* the steps of the thread in which every call returns
DetReturns ==
    \/ D_while \/ D_lock \/ D_copy \/ D_check \/ D_letterbox \/ D_quantize
    \/ D_invoke \/ D_post \/ D_publish \/ D_fps

----------------------------------------------------------------------------
(* The main thread: setup (model.py:108-131, 201-204), ingest/display loop  *)
(* and shutdown (model.py:207-236)                                         *)

DetTerminated == det_pc \in {"D_exit", "D_crashed"}

\* The steps of the setup in the order the script runs them: download of the
\* model file (108), label table (109), interpreter and tensor allocation
\* (111-112), input and output details (113-117), camera (122-131), figure,
\* thread and the "Running" line (201-205).
StartupSteps ==
    << "S_download", "S_labels", "S_interpreter", "S_details", "S_camera",
       "S_display" >>

StartupPcs == { StartupSteps[i] : i \in DOMAIN StartupSteps }

\* what the step at pc prints: download announces itself unless the model
\* file is already there (model.py:44-46); the last step ends with the
\* print of model.py:205
Prints(pc, cached) ==
    IF pc = "S_download" /\ ~cached THEN { DownloadingLine }
    ELSE IF pc = "S_display" THEN { RunningLine }
    ELSE {}

\* mutant of ThreadStartStep: the thread is started once the model is set up,
\* before the camera is opened
ThreadStartBeforeCamera == "S_details"

\* model.py:204  the step whose last statement is thread.start()
ThreadStartStep == "S_display"

\* the step at main_pc completes and the script goes on to the next one; the
\* step that ends with thread.start() starts the inference thread
Startup ==
    /\ \E i \in DOMAIN StartupSteps :
          /\ main_pc = StartupSteps[i]
          /\ main_pc' = IF i < Len(StartupSteps) THEN StartupSteps[i + 1]
                                                  ELSE "M_while"
    /\ det_pc' = IF main_pc = ThreadStartStep THEN "D_while" ELSE det_pc
    /\ \E cached \in BOOLEAN : printed' = printed \cup Prints(main_pc, cached)
    /\ UNCHANGED << config, frame_lock, latest_frame, detections, fps, running,
                    d_frame, d_lb, d_x, d_raw, d_dets, m_frame, captured, shown,
                    joined, history >>

\* the step at main_pc raises (RuntimeError of download, an exception of the
\* interpreter or the camera, SystemExit of model.py:131, KeyboardInterrupt):
\* nothing catches it at module level and the script ends
StartupFails ==
    /\ main_pc \in StartupPcs
    /\ main_pc' = "M_failed"
    /\ printed' = printed \cup Prints(main_pc, FALSE)
    /\ UNCHANGED << config, frame_lock, latest_frame, detections, fps, running,
                    detLocals, m_frame, captured, shown, joined, history >>

\* positions inside the try block of model.py:207-225
InTry == main_pc \in {"M_while", "M_capture", "M_lock", "M_write", "M_show",
                      "M_draw", "M_pause"}

\* model.py:208  `while running:`
M_while ==
    /\ main_pc = "M_while"
    /\ main_pc' = IF running THEN "M_capture" ELSE "M_finally"
    /\ UNCHANGED << config, printed, frame_lock, latest_frame, detections, fps, running,
                    detLocals, m_frame, captured, shown, joined, history >>

\* model.py:209-214  the camera delivers a frame (a fresh array)
M_capture ==
    /\ main_pc = "M_capture"
    /\ captured < MaxFrames
    /\ captured' = captured + 1
    /\ m_frame' = CameraFrame(captured + 1, CameraSize.w, CameraSize.h)
    /\ main_pc' = "M_lock"
    /\ UNCHANGED << config, printed, frame_lock, latest_frame, detections, fps, running,
                    detLocals, shown, joined, history >>

\* mutant of M_capture_fail: a failed read empties the slot
M_capture_failClears ==
    /\ main_pc = "M_capture"
    /\ ~USE_PICAMERA2
    /\ latest_frame' = None
    /\ main_pc' = "M_while"
    /\ UNCHANGED << config, printed, frame_lock, detections, fps, running,
                    detLocals, m_frame, captured, shown, joined, history >>

\* model.py:212-213  cap.read() returns ret = False: sleep and continue
M_capture_fail ==
    /\ main_pc = "M_capture"
    /\ ~USE_PICAMERA2
    /\ main_pc' = "M_while"
    /\ UNCHANGED << config, printed, frame_lock, latest_frame, detections, fps, running,
                    detLocals, m_frame, captured, shown, joined, history >>

\* model.py:216  `with frame_lock:` entered
M_lock ==
    /\ main_pc = "M_lock"
    /\ frame_lock = "free"
    /\ frame_lock' = "main"
    /\ main_pc' = "M_write"
    /\ UNCHANGED << config, printed, latest_frame, detections, fps, running,
                    detLocals, m_frame, captured, shown, joined, history >>

\* model.py:217  what `latest_frame = frame` stores in the slot
SlotValue == m_frame

\* model.py:217 and the end of the with block
M_write ==
    /\ main_pc = "M_write"
    /\ latest_frame' = SlotValue
    /\ frame_lock' = "free"
    /\ main_pc' = "M_show"
    /\ UNCHANGED << config, printed, detections, fps, running,
                    detLocals, m_frame, captured, shown, joined, history >>

\* model.py:219  ax.imshow(frame) and the title reading fps
M_show ==
    /\ main_pc = "M_show"
    /\ main_pc' = "M_draw"
    /\ UNCHANGED << config, printed, frame_lock, latest_frame, detections, fps, running,
                    detLocals, m_frame, captured, shown, joined, history >>

\* mutant of M_draw: the display empties the list once it has drawn it
M_drawConsumes ==
    /\ main_pc = "M_draw"
    /\ shown' = detections
    /\ detections' = <<>>
    /\ main_pc' = "M_pause"
    /\ UNCHANGED << config, printed, frame_lock, latest_frame, fps, running,
                    detLocals, m_frame, captured, joined, history >>

\* model.py:220-224  `for ... in detections:` draws the list it finds
M_draw ==
    /\ main_pc = "M_draw"
    /\ shown' = detections
    /\ main_pc' = "M_pause"
    /\ UNCHANGED << config, printed, frame_lock, latest_frame, detections, fps, running,
                    detLocals, m_frame, captured, joined, history >>

\* model.py:225  plt.pause(0.001)
M_pause ==
    /\ main_pc = "M_pause"
    /\ main_pc' = "M_while"
    /\ UNCHANGED << config, printed, frame_lock, latest_frame, detections, fps, running,
                    detLocals, m_frame, captured, shown, joined, history >>

\* model.py:226-228  KeyboardInterrupt (or any other exception) anywhere in the
\* try block; leaving a with block releases the lock
Interrupt ==
    /\ InTry
    /\ frame_lock' = IF frame_lock = "main" THEN "free" ELSE frame_lock
    /\ main_pc' = "M_finally"
    /\ UNCHANGED << config, printed, latest_frame, detections, fps, running,
                    detLocals, m_frame, captured, shown, joined, history >>

\* model.py:229  `running = False`
M_finally ==
    /\ main_pc = "M_finally"
    /\ running' = FALSE
    /\ main_pc' = "M_join"
    /\ UNCHANGED << config, printed, frame_lock, latest_frame, detections, fps,
                    detLocals, m_frame, captured, shown, joined, history >>

\* model.py:230  thread.join(timeout=1.0) returns: the thread has ended, or
\* the timeout has passed with the thread still running
M_join ==
    /\ main_pc = "M_join"
    /\ joined' = IF DetTerminated THEN "exited" ELSE "timeout"
    /\ main_pc' = "M_release"
    /\ UNCHANGED << config, printed, frame_lock, latest_frame, detections, fps, running,
                    detLocals, m_frame, captured, shown, history >>

\* model.py:231-235  picam2.stop() / cap.release()
M_release ==
    /\ main_pc = "M_release"
    /\ main_pc' = "M_close"
    /\ UNCHANGED << config, printed, frame_lock, latest_frame, detections, fps, running,
                    detLocals, m_frame, captured, shown, joined, history >>

\* model.py:236  plt.close(fig); the script ends
M_close ==
    /\ main_pc = "M_close"
    /\ main_pc' = "M_done"
    /\ UNCHANGED << config, printed, frame_lock, latest_frame, detections, fps, running,
                    detLocals, m_frame, captured, shown, joined, history >>

MainNext ==
    \/ Startup \/ StartupFails
    \/ M_while \/ M_capture \/ M_capture_fail \/ M_lock \/ M_write \/ M_show
    \/ M_draw \/ M_pause \/ Interrupt \/ M_finally \/ M_join \/ M_release \/ M_close

----------------------------------------------------------------------------
(* Specifications                                                          *)

Next == MainNext \/ DetReturns \/ D_invoke_raise

\* the pipeline, every interleaving of the two threads
Spec == Init /\ [][Next]_vars

\* the pipeline with a detector whose calls always return
NextReturns == MainNext \/ DetReturns

\* Fair scheduling: a runnable inference thread eventually takes its next
\* step, and the main thread leaves its with block (model.py:216-217).
Fairness == WF_vars(DetReturns) /\ WF_vars(M_write)

FairSpec == Init /\ [][NextReturns]_vars /\ Fairness

----------------------------------------------------------------------------
(* Post-processing examined on its own: the thread is in the middle of a   *)
(* cycle, holding its private copy of a frame of any of FrameSizes, the     *)
(* stop flag has just been set, and the detector may emit any of           *)
(* Arrays(RawDets).  The thread finishes this cycle and leaves the loop.   *)

InitPost ==
    /\ USE_PICAMERA2 = TRUE
    /\ labels \in LabelTables
    /\ \E sz \in InputSizes : in_w = sz.w /\ in_h = sz.h
    /\ InitQuant
    /\ printed = PrintedAfterSetup
    /\ frame_lock = "free"
    /\ \E sz \in FrameSizes :
          /\ latest_frame = CameraFrame(1, sz.w, sz.h)
          /\ m_frame = latest_frame
          /\ d_frame = Copy(latest_frame)
          /\ h_readSlot = latest_frame
    /\ detections = <<>>
    /\ fps = Ratio(0, 1)
    /\ running = FALSE
    /\ d_lb = NoLetterbox
    /\ d_raw = NoOutput
    /\ d_dets = <<>>
    /\ captured = 1
    /\ shown = <<>>
    /\ joined = "pending"
    /\ h_pubAfterStop = 0
    /\ h_pubFrame = None
    /\ det_pc = "D_letterbox"
    /\ main_pc = "M_join"

P_invoke == Invoke(Arrays(RawDets))

NextPost ==
    \/ D_letterbox \/ D_quantize \/ P_invoke \/ D_post \/ D_publish \/ D_fps
    \/ D_while

PostSpec == InitPost /\ [][NextPost]_vars

----------------------------------------------------------------------------
(* letterbox on its own                                                    *)

\* every source width and height 0 .. MaxSide, and the sizes of FrameSizes
SourceSizes ==
    { [w |-> a, h |-> b] : a \in 0..MaxSide, b \in 0..MaxSide } \cup FrameSizes

\* the targets letterbox is examined with: small ones for the small sources,
\* and the input sizes of the detector
TargetSizes ==
    { [w |-> 4, h |-> 4], [w |-> 8, h |-> 6] } \cup InputSizes

\* The inference thread holds its private copy of a frame of any of
\* SourceSizes and is about to call letterbox(frame, in_w, in_h).
InitLb ==
    /\ USE_PICAMERA2 = TRUE
    /\ labels = <<"cat", "dog">>
    /\ \E sz \in TargetSizes : in_w = sz.w /\ in_h = sz.h
    /\ InitQuant
    /\ printed = PrintedAfterSetup
    /\ frame_lock = "free"
    /\ \E sz \in SourceSizes :
          /\ latest_frame = CameraFrame(1, sz.w, sz.h)
          /\ m_frame = latest_frame
          /\ d_frame = Copy(latest_frame)
          /\ h_readSlot = latest_frame
    /\ detections = <<>>
    /\ fps = Ratio(0, 1)
    /\ running = TRUE
    /\ d_lb = NoLetterbox
    /\ d_raw = NoOutput
    /\ d_dets = <<>>
    /\ captured = 1
    /\ shown = <<>>
    /\ joined = "pending"
    /\ h_pubAfterStop = 0
    /\ h_pubFrame = None
    /\ det_pc = "D_letterbox"
    /\ main_pc = "M_show"

LbSpec == InitLb /\ [][D_letterbox]_vars

----------------------------------------------------------------------------
(* quantize_input on its own                                               *)

\* input dtypes: the three quantize_input knows, and one it passes through
Dtypes == { "float32", "uint8", "int8", "int16" }

\* quantization scales: unspecified (0), 1/255, 1/128 = 0.0078125, 1/2, 1, 2
QuantScales ==
    { Ratio(0, 1), Ratio(1, MaxSample), Ratio(1, 128), Ratio(1, 2), Ratio(1, 1),
      Ratio(2, 1) }

\* zero points inside and outside both integer ranges
ZeroPoints == { -300, -128, 0, 127, 300 }

\* The inference thread has letterboxed a camera frame and is about to call
\* quantize_input; the sample px of the image, the dtype, scale and zero
\* point of the input tensor are arbitrary.
InitQuantize ==
    /\ USE_PICAMERA2 = TRUE
    /\ labels = <<"cat", "dog">>
    /\ in_w = 320 /\ in_h = 320
    /\ in_dtype \in Dtypes
    /\ in_scale \in QuantScales
    /\ in_zero \in ZeroPoints
    /\ px \in 0..MaxSample
    /\ d_x = Ratio(0, 1)
    /\ printed = PrintedAfterSetup
    /\ frame_lock = "free"
    /\ latest_frame = CameraFrame(1, CameraSize.w, CameraSize.h)
    /\ m_frame = latest_frame
    /\ d_frame = Copy(latest_frame)
    /\ h_readSlot = latest_frame
    /\ detections = <<>>
    /\ fps = Ratio(0, 1)
    /\ running = TRUE
    /\ d_lb = letterbox(CameraSize.w, CameraSize.h, 320, 320)
    /\ d_raw = NoOutput
    /\ d_dets = <<>>
    /\ captured = 1
    /\ shown = <<>>
    /\ joined = "pending"
    /\ h_pubAfterStop = 0
    /\ h_pubFrame = None
    /\ det_pc = "D_quantize"
    /\ main_pc = "M_show"

QuantSpec == InitQuantize /\ [][D_quantize]_vars

----------------------------------------------------------------------------
(* Claims                                                                  *)

\* the inference side is past its frame copy and has not yet published
InferenceRunning ==
    det_pc \in {"D_check", "D_letterbox", "D_quantize", "D_invoke", "D_post", "D_publish"}

\* C1: while detection_loop is between the end of its frame copy and the
\* publication of its results (letterbox, quantization, detector call,
\* post-processing), it does not hold frame_lock, so the ingest side can take
\* the lock and write the slot.
C1_LockFreeDuringInference ==
    InferenceRunning => frame_lock # "det"

\* C1 witness: the ingest side holds the lock and is writing the slot while the
\* inference side is inside the detector call.
C1_Witness == det_pc = "D_invoke" /\ frame_lock = "main" /\ main_pc = "M_write"

\* C2 (as claimed): every access to the detection-result slot is made while
\* holding the lock: the inference loop's write of detections and the
\* display's read of it.
C2_ResultSlotUnderLock ==
    /\ (det_pc = "D_publish" => frame_lock = "det")
    /\ (main_pc = "M_draw" => frame_lock = "main")

\* the inference thread is gone: it left the loop, an exception ended it, or
\* the process ended (the thread is a daemon)
Stopped == DetTerminated \/ main_pc = "M_done"

\* C3: once running = False, the inference loop publishes at most one more
\* detection set, a loop test taken after the flag is set never starts
\* another cycle, and the thread terminates.
C3_StopsWithinOneCycle ==
    /\ [](h_pubAfterStop <= 1)
    /\ [][(~running /\ det_pc = "D_while") => det_pc' \in {"D_while", "D_exit"}]_vars
    /\ (~running ~> Stopped)

\* C3 witness: the flag was set in the middle of a cycle, that cycle was
\* published, and the thread has left the loop.
C3_Witness == ~running /\ h_pubAfterStop = 1 /\ det_pc = "D_exit"

\* C4 (as claimed): a failure inside a cycle never terminates the inference
\* thread; the cycle is skipped and the loop goes on.
C4_FailureNeverEndsLoop == det_pc # "D_crashed"

\* the frame the cycle works on is the one the slot held when it was read
CycleFrameIsSlotAtRead ==
    det_pc \in {"D_check", "D_letterbox", "D_quantize", "D_invoke", "D_post",
                "D_publish", "D_fps"}
        => d_frame = (IF h_readSlot = None THEN None ELSE Copy(h_readSlot))

\* C5: every published detection set is derived from exactly one frame, the
\* frame that was in the slot (the most recently written one) when the cycle
\* read it: the cycle's frame is that slot content, the set just published is
\* the post-processing of that frame alone; the slot never holds anything
\* older than the last frame written, and the loop never goes back to a frame
\* older than one it has already published from.
C5_FreshestWins ==
    /\ CycleFrameIsSlotAtRead
    /\ (det_pc = "D_fps" =>
            /\ h_pubFrame = d_frame
            /\ detections = PostProcess(d_raw, letterbox(d_frame.w, d_frame.h, in_w, in_h),
                                        d_frame))
    /\ latest_frame.seq >= captured - 1
    /\ d_frame.seq <= latest_frame.seq
    /\ (h_pubFrame # None /\ d_frame # None => h_pubFrame.seq <= d_frame.seq)

\* C5 witness: the first set ever published comes from the second frame; the
\* first frame was overwritten in the slot before any cycle read it.
C5_Witness ==
    det_pc = "D_fps" /\ h_pubFrame.seq = 2 /\ h_pubAfterStop = 0 /\ shown = <<>>
    /\ main_pc = "M_show" /\ fps = Ratio(0, 1)

\* C6: once the slot holds a frame, the inference loop keeps completing
\* cycles (publishing a detection set, then an FPS value) again and again
\* until the stop flag is set, also when the slot is never written again.
C6_KeepsCyclingOnStaticFrame ==
    /\ [](latest_frame # None /\ running => <>(det_pc = "D_fps" \/ ~running))
    /\ [](det_pc = "D_fps" /\ running => <>(det_pc = "D_while" \/ ~running))

\* C6 witness: with a single frame ever captured, a second cycle on that same
\* frame is about to publish.
C6_Witness ==
    /\ running /\ captured = 1 /\ det_pc = "D_publish"
    /\ h_pubFrame # None /\ h_pubFrame.seq = d_frame.seq

\* C7 (as claimed): the slot holds a copy of the captured frame, and no buffer
\* is referenced by the ingest/display side and by the inference side
\* (directly or through the slot) at the same time.
C7_NoSharedBuffer ==
    /\ ~SameBuffer(latest_frame, m_frame)
    /\ ~SameBuffer(d_frame, m_frame)
    /\ ~SameBuffer(d_frame, latest_frame)

\* the raw detections the current cycle iterates over: 0 .. count - 1
RawIndices == 0..(CountOf(d_raw) - 1)

\* the dets list of the current cycle is complete
PostDone == det_pc \in {"D_publish", "D_fps"}

\* the output entries built from raw index i
FromIndex(i) == { j \in DOMAIN d_dets : d_dets[j].src = i }

\* C8: for every i in [0, count): a score strictly below the threshold never
\* appears in the output; a score at or above the threshold is kept unless its
\* box is degenerate after inversion and clamping.
C8_ThresholdExact ==
    PostDone =>
        \A i \in RawIndices :
            /\ ScoreAt(d_raw, i) < score_thresh => FromIndex(i) = {}
            /\ (ScoreAt(d_raw, i) >= score_thresh
                  /\ ~Degenerate(FrameBox(BoxAt(d_raw, i), d_lb, d_frame.w, d_frame.h)))
                   => \E j \in FromIndex(i) : d_dets[j].s = ScoreAt(d_raw, i)

\* C8 witness: one raw detection exactly at the threshold is in the output and
\* one just below it is not.
C8_Witness ==
    /\ PostDone /\ CountOf(d_raw) = 2
    /\ ScoreAt(d_raw, 0) = score_thresh - 1 /\ ScoreAt(d_raw, 1) = score_thresh
    /\ Len(d_dets) = 1 /\ d_dets[1].src = 1

\* the label the specification prescribes for class c
SpecLabel(c) ==
    IF 0 <= c /\ c < Len(labels) THEN labels[c + 1]
    ELSE IF 1 <= c /\ c <= Len(labels) THEN labels[c]
    ELSE "id:" \o ToString(c)

\* C9: every output label is labels[c] for 0 <= c < len(labels), else
\* labels[c-1] for 1 <= c <= len(labels), else "id:<c>" (negative c and the
\* empty table included); with labels = ["cat","dog"]: 0 -> "cat",
\* 2 -> "dog", 5 -> "id:5".
C9_LabelResolution ==
    PostDone =>
        \A j \in DOMAIN d_dets :
            LET c == ClassAt(d_raw, d_dets[j].src)
                name == d_dets[j].name
            IN  /\ name = SpecLabel(c)
                /\ (c < 0 \/ labels = <<>>) => name = "id:" \o ToString(c)
                /\ labels = <<"cat", "dog">> =>
                      /\ c = 0 => name = "cat"
                      /\ c = 2 => name = "dog"
                      /\ c = 5 => name = "id:5"

\* C9 witness: with labels = ["cat","dog"], class 2 was resolved through the
\* 1-based lookup and class 5 got the placeholder.
C9_Witness ==
    /\ PostDone /\ labels = <<"cat", "dog">> /\ Len(d_dets) = 2
    /\ ClassAt(d_raw, 0) = 2 /\ d_dets[1].name = "dog"
    /\ ClassAt(d_raw, 1) = 5 /\ d_dets[2].name = "id:5"

\* a frame-space box lies inside a w x h frame and has positive extent
WellFormed(b, w, h) ==
    /\ b.x1 < b.x2 /\ b.y1 < b.y2
    /\ 0 <= b.x1 /\ b.x2 <= w - 1
    /\ 0 <= b.y1 /\ b.y2 <= h - 1

\* C10: every Detection of every published detection set (and of the list
\* about to be published) has x1 < x2, y1 < y2 and all coordinates inside
\* [0, frame_dim - 1] of the frame it was derived from.
C10_BoxesWellFormed ==
    /\ \A j \in DOMAIN detections :
          WellFormed(detections[j].box, h_pubFrame.w, h_pubFrame.h)
    /\ PostDone =>
          \A j \in DOMAIN d_dets : WellFormed(d_dets[j].box, d_frame.w, d_frame.h)

\* C10 witness: a raw box reaching outside [0,1] was published clamped to the
\* whole frame, and a raw box of zero width from the same output was dropped.
C10_Witness ==
    /\ det_pc = "D_fps" /\ CountOf(d_raw) = 2 /\ Len(detections) = 1
    /\ BoxAt(d_raw, 0) = Box(2, 4, 6, 4) /\ ScoreAt(d_raw, 0) = score_thresh
    /\ BoxAt(d_raw, 1) = Box(-4, -4, 12, 12)
    /\ detections[1].box = [x1 |-> 0, y1 |-> 0, x2 |-> h_pubFrame.w - 1,
                            y2 |-> h_pubFrame.h - 1]

\* C11: post-processing is a stable, order-preserving filter: the entries of
\* the output are built from strictly increasing raw indices (no re-sorting,
\* no duplication), every index is below count, and every entry is the
\* Detection of the raw detection at its index.
C11_OrderPreservingFilter ==
    PostDone =>
        /\ \A j \in DOMAIN d_dets :
              /\ d_dets[j].src \in RawIndices
              /\ d_dets[j] = Detection(d_dets[j].src, d_raw, d_lb, d_frame.w, d_frame.h)
              /\ d_dets[j].s = ScoreAt(d_raw, d_dets[j].src)
        /\ \A j, k \in DOMAIN d_dets : j < k => d_dets[j].src < d_dets[k].src
        /\ Len(d_dets) <= CountOf(d_raw)

\* C11 witness: two raw detections were kept, the lower score first, in the
\* order the detector emitted them.
C11_Witness ==
    /\ PostDone /\ CountOf(d_raw) = 2 /\ Len(d_dets) = 2
    /\ ScoreAt(d_raw, 0) < ScoreAt(d_raw, 1)
    /\ d_dets[1].src = 0 /\ d_dets[2].src = 1

\* letterbox has returned or raised in the current cycle
LetterboxDone == det_pc \in {"D_quantize", "D_crashed"}

\* |a|
Abs(a) == IF a < 0 THEN -a ELSE a

\* the canvas columns (or rows) of the two edges of the pasted region
PastedEdges(off, n) == { off, off + n }

\* the source coordinate the edges of the pasted region ought to map back to:
\* the first edge to 0, the second to dim
SourceEdge(p, off, dim) == IF p = off THEN 0 ELSE dim

\* (p - off) / scale lies within tol_num / tol_den source pixels of target,
\* in integers: |(p - off) * den - target * num| * tol_den <= tol_num * num
MapsBackWithin(p, off, scale, target, tol_num, tol_den) ==
    Abs((p - off) * scale.den - target * scale.num) * tol_den <= tol_num * scale.num

ScaledSize ==
    LET scale == LetterboxScale(d_frame.w, d_frame.h, in_w, in_h)
    IN  [w |-> Trunc(d_frame.w * scale.num, scale.den),
         h |-> Trunc(d_frame.h * scale.num, scale.den)]

IsFrameCoordinate(v, k, in_dim, off, scale, dim) ==
    LET n == (k * in_dim - off * BoxDen) * scale.den
        d == BoxDen * scale.num
    IN  IF n <= 0 THEN v = 0
        ELSE IF n >= (dim - 1) * d THEN v = dim - 1
        ELSE v * d <= n /\ n < (v + 1) * d

\* C13: every coordinate of every output box is the normalized coordinate
\* times the input dimension, minus the letterbox offset, divided by scale,
\* clamped to [0, dim - 1]; and for a 640 x 480 frame letterboxed into
\* 320 x 320 the box (0.25, 0.25, 0.75, 0.75) comes out with its centre
\* within one pixel of (320, 240).
C13_FrameCoordinates ==
    PostDone =>
        \A j \in DOMAIN d_dets :
            LET raw == BoxAt(d_raw, d_dets[j].src)
                b == d_dets[j].box
            IN  /\ IsFrameCoordinate(b.y1, raw[1], in_h, d_lb.top, d_lb.scale, d_frame.h)
                /\ IsFrameCoordinate(b.x1, raw[2], in_w, d_lb.left, d_lb.scale, d_frame.w)
                /\ IsFrameCoordinate(b.y2, raw[3], in_h, d_lb.top, d_lb.scale, d_frame.h)
                /\ IsFrameCoordinate(b.x2, raw[4], in_w, d_lb.left, d_lb.scale, d_frame.w)
                /\ ([w |-> d_frame.w, h |-> d_frame.h] = CameraSize
                       /\ in_w = 320 /\ in_h = 320 /\ raw = CentreBox)
                      => /\ Abs(b.x1 + b.x2 - 2 * 320) <= 2
                         /\ Abs(b.y1 + b.y2 - 2 * 240) <= 2

\* C13 witness: the centred box of a 640 x 480 frame letterboxed into
\* 320 x 320 (scale 1/2, top 40) came out as (160, 80) - (480, 400).
C13_Witness ==
    /\ PostDone /\ d_frame.w = 640 /\ d_frame.h = 480 /\ in_w = 320 /\ in_h = 320
    /\ d_lb.top = 40 /\ d_lb.left = 0
    /\ Len(d_dets) >= 1 /\ BoxAt(d_raw, d_dets[1].src) = CentreBox
    /\ d_dets[1].box = [x1 |-> 160, y1 |-> 80, x2 |-> 480, y2 |-> 400]

\* the integer v is the real n / d (d > 0) rounded to a nearest integer and
\* saturated to lo .. hi: a value beyond either end stays at that end
Saturates(v, n, d, lo, hi) ==
    IF n >= hi * d THEN v = hi
    ELSE IF n <= lo * d THEN v = lo
    ELSE 2 * Abs(v * d - n) <= d

\* C14: for every sample 0..255, every scale >= 0 and every zero point the
\* quantized sample lies in the range of the input dtype: 0..255 for uint8,
\* -128..127 for int8 (with a scale and in the fallback), [0, 1] for float32;
\* a value beyond the range saturates, it never wraps in the final cast.
C14_QuantizedInRange ==
    det_pc = "D_invoke" =>
        /\ in_dtype = "float32" =>
              /\ 0 <= d_x.num /\ d_x.num <= d_x.den
              /\ d_x.num * MaxSample = px * d_x.den
        /\ in_dtype = "uint8" =>
              /\ d_x.den = 1 /\ d_x.num \in 0..255
              /\ in_scale.num > 0 =>
                    Saturates(d_x.num, px * in_scale.den + in_zero * 255 * in_scale.num,
                              255 * in_scale.num, 0, 255)
              /\ in_scale.num = 0 => d_x.num = px
        /\ in_dtype = "int8" =>
              /\ d_x.den = 1 /\ d_x.num \in -128..127
              /\ in_scale.num > 0 =>
                    Saturates(d_x.num, px * in_scale.den + in_zero * 255 * in_scale.num,
                              255 * in_scale.num, -128, 127)
              /\ in_scale.num = 0 =>
                    Saturates(d_x.num, 128 * (2 * px - 255), 255, -128, 127)

\* C14 witness: the int8 fallback maps the sample 255 to 128 before the clip
\* and delivers 127.
C14_Witness ==
    /\ det_pc = "D_invoke" /\ in_dtype = "int8" /\ in_scale.num = 0
    /\ px = MaxSample /\ Fallback(px) = 128 /\ d_x = Ratio(127, 1)

\* the frame of the current cycle has no columns or no rows
ZeroSizedFrame == d_frame # None /\ (d_frame.w = 0 \/ d_frame.h = 0)

\* C15: letterbox on a frame of zero width or height produces no canvas, and
\* the cycle is skipped: the inference loop is still alive to take the next
\* frame.
C15_ZeroSizedFrameSkipsCycle ==
    ZeroSizedFrame => (~d_lb.ok /\ ~DetTerminated)

\* C16: the inference thread exists only once every step of the setup has
\* completed; while the setup runs, and for good after a step of it failed,
\* the thread is not started and no detection set or FPS is published.
C16_ThreadStartsAfterSetup ==
    /\ det_pc # "D_unstarted" => main_pc \notin (StartupPcs \cup {"M_failed"})
    /\ main_pc \in (StartupPcs \cup {"M_failed"}) =>
          /\ det_pc = "D_unstarted"
          /\ detections = <<>> /\ h_pubFrame = None /\ fps = Ratio(0, 1)
          /\ latest_frame = None /\ running

\* C16 witness: a step of the setup failed and the script ended with the
\* inference thread never started.
C16_Witness ==
    main_pc = "M_failed" /\ det_pc = "D_unstarted" /\ detections = <<>>

\* C17: every shared slot has one writer.  A step that changes latest_frame
\* is the slot write of the main thread; a step that changes detections is
\* the publication of the inference thread, one that changes fps its FPS
\* update; a step that changes running is the main thread's `running = False`.
\* The inference thread changes neither latest_frame nor running, the main
\* thread neither detections nor fps.
C17_SingleWriter ==
    [][ /\ latest_frame' # latest_frame => (main_pc = "M_write" /\ det_pc' = det_pc)
        /\ detections' # detections => (det_pc = "D_publish" /\ main_pc' = main_pc)
        /\ fps' # fps => (det_pc = "D_fps" /\ main_pc' = main_pc)
        /\ running' # running => (main_pc = "M_finally" /\ det_pc' = det_pc)
      ]_vars

\* C17 witness: all four slots have been written.
C17_Witness ==
    /\ latest_frame # None /\ detections # <<>> /\ fps # Ratio(0, 1) /\ ~running

\* C18: on every way out of the ingest/display loop the main thread first
\* sets the stop flag and then waits for the inference thread; when the wait
\* runs out with the thread still going, the teardown goes no further: the
\* camera is not released.
C18_TimeoutStopsTeardown ==
    /\ main_pc \in {"M_join", "M_release", "M_close", "M_done"} => ~running
    /\ joined = "timeout" => main_pc \notin {"M_close", "M_done"}

\* the integer n is the real a / b (b > 0) rounded to a nearest integer
IsRounded(n, a, b) == 2 * Abs(n * b - a) <= b

\* C19: whenever letterbox returns, scale is min(target_w / w, target_h / h),
\* the image is resized to (round(w * scale), round(h * scale)) and pasted
\* centred: each offset is (target - dim * scale) / 2 up to integer rounding
\* and not negative, and the pasted region lies inside the canvas.
C19_LetterboxGeometry ==
    (det_pc = "D_quantize" /\ d_lb.ok) =>
        LET w == d_frame.w
            h == d_frame.h
            sc == d_lb.scale
        IN  /\ sc.num * w <= in_w * sc.den /\ sc.num * h <= in_h * sc.den
            /\ (sc.num * w = in_w * sc.den \/ sc.num * h = in_h * sc.den)
            /\ IsRounded(d_lb.nw, w * sc.num, sc.den)
            /\ IsRounded(d_lb.nh, h * sc.num, sc.den)
            /\ Abs(2 * d_lb.left * sc.den - (in_w * sc.den - w * sc.num)) <= 2 * sc.den
            /\ Abs(2 * d_lb.top * sc.den - (in_h * sc.den - h * sc.num)) <= 2 * sc.den
            /\ d_lb.left >= 0 /\ d_lb.top >= 0
            /\ d_lb.left + d_lb.nw <= d_lb.cw /\ d_lb.top + d_lb.nh <= d_lb.ch

\* The state of the scheduler: Idle while the loop polls an empty slot and
\* has published nothing, Processing from letterbox to the publication,
\* Published from the publication to the start of the next cycle, Stopped
\* once the thread has ended.
Phase ==
    IF det_pc = "D_unstarted" THEN "Unstarted"
    ELSE IF DetTerminated THEN "Stopped"
    ELSE IF det_pc \in {"D_letterbox", "D_quantize", "D_invoke", "D_post", "D_publish"}
    THEN "Processing"
    ELSE IF h_pubFrame # None THEN "Published"
    ELSE "Idle"

\* the moves of the scheduler between its states
PhaseMoves ==
    { <<"Unstarted", "Idle">>, <<"Idle", "Processing">>, <<"Idle", "Stopped">>,
      <<"Processing", "Published">>, <<"Processing", "Stopped">>,
      <<"Published", "Processing">>, <<"Published", "Stopped">> }

\* C20: the scheduler moves Idle -> Processing -> Published -> Processing.
\* While the frame slot is empty the loop is Idle (or not started, or
\* stopped) and the detection slot and the FPS keep their initial values; a
\* non-empty slot is never emptied, and once a detection set has been
\* published the loop never finds the slot empty again; after the loop has
\* stopped, the detection slot and the FPS never change.
C20_SchedulerStates ==
    /\ [](latest_frame = None =>
             /\ Phase \in {"Unstarted", "Idle", "Stopped"}
             /\ detections = <<>> /\ fps = Ratio(0, 1) /\ h_pubFrame = None)
    /\ []((det_pc = "D_check" /\ Phase = "Published") => d_frame # None)
    /\ [][ /\ latest_frame # None => latest_frame' # None
           /\ Phase' # Phase => <<Phase, Phase'>> \in PhaseMoves
           /\ (det_pc = "D_check" /\ d_frame # None) => det_pc' \in {"D_check", "D_letterbox"}
           /\ Stopped => (detections' = detections /\ fps' = fps)
           /\ DetTerminated => det_pc' = det_pc
         ]_vars

\* C20 witness: the loop has stopped after a publication, with the detection
\* set and the FPS of its last cycle in the slots.
C20_Witness ==
    /\ det_pc = "D_exit" /\ Phase = "Stopped" /\ h_pubFrame # None
    /\ detections # <<>> /\ fps # Ratio(0, 1) /\ latest_frame # None

\* the lines the setup prints
SetupLines == { DownloadingLine, RunningLine }

\* the cycle has quantized its input through the int8 fallback
UsedFallback == det_pc = "D_invoke" /\ in_dtype = "int8" /\ in_scale.num = 0

\* C21: a cycle that quantizes through the int8 fallback (int8 input,
\* scale 0) has written a line saying so: after quantize_input the output
\* holds a line that is not one of the setup's.
C21_FallbackFlagged ==
    UsedFallback => printed \ SetupLines # {}

\* the detection sets a whole cycle on frame f can produce in a pipeline run
CompleteSets(f) ==
    { PostProcess(AsOutput(a, n), letterbox(f.w, f.h, in_w, in_h), f) :
        a \in SceneArrays, n \in 0..MaxDet }

\* C22: the shared detection set changes only by one assignment that
\* replaces it with the finished private list of the current cycle, the
\* complete post-processing of that cycle's frame and raw output; the display
\* takes the set it draws in one read.  So the shared set and the set drawn
\* are always empty or the complete result of one cycle.
C22_AtomicPublication ==
    /\ [][ /\ detections' # detections =>
                 /\ det_pc = "D_publish" /\ det_pc' = "D_fps"
                 /\ detections' = d_dets
                 /\ d_dets = PostProcess(d_raw, d_lb, d_frame)
                 /\ h_pubFrame' = d_frame
           /\ shown' # shown => (main_pc = "M_draw" /\ shown' = detections)
         ]_vars
    /\ [](detections # <<>> => detections \in CompleteSets(h_pubFrame))
    /\ [](shown # <<>> =>
             \E n \in 1..MaxFrames :
                 shown \in CompleteSets(CameraFrame(n, CameraSize.w, CameraSize.h)))

\* C22 witness: the display has drawn the published set while the inference
\* thread holds the finished, different list of its next cycle, not yet
\* published.
C22_Witness ==
    /\ det_pc = "D_publish" /\ d_dets # detections
    /\ main_pc = "M_pause" /\ shown = detections /\ shown # <<>>

\* C23: for every source with positive width and height letterbox computes
\* nw = int(w * scale) >= 1 and nh = int(h * scale) >= 1, and returns a canvas
\* with a pasted region of at least one pixel.
C23_ResizedAtLeastOnePixel ==
    (LetterboxDone /\ d_frame.w > 0 /\ d_frame.h > 0) =>
        /\ ScaledSize.w >= 1 /\ ScaledSize.h >= 1
        /\ det_pc = "D_quantize" /\ d_lb.nw >= 1 /\ d_lb.nh >= 1

====
